---- MODULE Spec2Model ----
(***************************************************************************)
(* A model of DataScience/vw_audit_pp.py: the script that runs the VW      *)
(* audit command, parses its output into a table of coefficients,          *)
(* de-duplicates the table and writes it as a TSV file.                    *)
(*                                                                         *)
(* A text is a sequence of string pieces whose concatenation is the text:  *)
(* the command output is a sequence of one-character pieces, so that       *)
(* splitlines, strip and split are computed character by character.        *)
(***************************************************************************)
EXTENDS Integers, Sequences, FiniteSets, TLC

TAB == "\t"
NL == "\n"
CR == "\r"
COLON == ":"
QUOTE == "\""

\* The number of tab/newline separated tokens of a generated command output.
MaxTokens == 4

(***************************************************************************)
(* Python's str methods, as the parser uses them.                          *)
(***************************************************************************)

\* str.strip() with no argument removes these (the ASCII ones among them).
Whitespace == {" ", TAB, NL, CR, "\f"}

\* str.splitlines() breaks at these (the ASCII ones among them) and at CR NL.
LineBoundaries == {NL, CR, "\f"}

RECURSIVE lstrip(_)
lstrip(s) ==
    IF Len(s) > 0 /\ s[1] \in Whitespace THEN lstrip(Tail(s)) ELSE s

RECURSIVE rstrip(_)
rstrip(s) ==
    IF Len(s) > 0 /\ s[Len(s)] \in Whitespace
    THEN rstrip(SubSeq(s, 1, Len(s) - 1))
    ELSE s

strip(s) == rstrip(lstrip(s))

RECURSIVE SplitFrom(_, _, _, _)
SplitFrom(s, sep, i, cur) ==
    IF i > Len(s) THEN <<cur>>
    ELSE IF s[i] = sep THEN <<cur>> \o SplitFrom(s, sep, i + 1, <<>>)
    ELSE SplitFrom(s, sep, i + 1, Append(cur, s[i]))

\* s.split(sep): never empty, "".split(sep) is [""].
split(s, sep) == SplitFrom(s, sep, 1, <<>>)

RECURSIVE SplitLinesFrom(_, _, _)
SplitLinesFrom(s, i, cur) ==
    IF i > Len(s) THEN (IF Len(cur) = 0 THEN <<>> ELSE <<cur>>)
    ELSE IF s[i] \in LineBoundaries
    THEN <<cur>> \o SplitLinesFrom(s,
                         IF s[i] = CR /\ i < Len(s) /\ s[i + 1] = NL
                         THEN i + 2 ELSE i + 1,
                         <<>>)
    ELSE SplitLinesFrom(s, i + 1, Append(cur, s[i]))

\* s.splitlines(): no line after a final line break, "".splitlines() is [].
splitlines(s) == SplitLinesFrom(s, 1, <<>>)

\* [s.strip() for s in vw_cmd_output.splitlines()]
StrippedLines(out) ==
    LET ls == splitlines(out) IN [i \in 1..Len(ls) |-> strip(ls[i])]

(***************************************************************************)
(* run_vw_audit_command: the command line.                                 *)
(***************************************************************************)

\* An optional argument is <<>> (None) or <<value>>.
None == <<>>

\* Python's truth of an optional string: None and "" are false.
Truthy(opt) == Len(opt) = 1 /\ opt[1] # ""

\* Mutant: 'if pred_file is not None' in place of 'if pred_file'.
BaseWithPred_not_none(vw_base_cmd, pred_file) ==
    IF Len(pred_file) = 1
    THEN vw_base_cmd \o <<" -p ", pred_file[1]>>
    ELSE vw_base_cmd

\* vw_base_cmd, with ' -p {pred_file}' appended when pred_file is true.
BaseWithPred(vw_base_cmd, pred_file) ==
    IF Truthy(pred_file)
    THEN vw_base_cmd \o <<" -p ", pred_file[1]>>
    ELSE vw_base_cmd

\* vw_audit_cmd
VwAuditCmd(vw_base_cmd, model_file, log_file, pred_file) ==
    BaseWithPred(vw_base_cmd, pred_file)
        \o <<" -i ", model_file, " --dsjson ", log_file, " --audit">>

\* How the external command ends: it cannot be started, it exits non-zero,
\* or it exits 0.
CmdStatuses == {"not_started", "nonzero_exit", "ok"}

\* Mutant: the failure of the command is swallowed.
CheckOutputRaises_swallowed(status) == "None"

\* The exception check_output raises for a status ("None": it returns).
CheckOutputRaises(status) ==
    CASE status = "not_started" -> "OSError"
      [] status = "nonzero_exit" -> "CalledProcessError"
      [] OTHER -> "None"

(***************************************************************************)
(* parse_audit_command: the records of one line.                           *)
(***************************************************************************)

DictKeys == <<"Namespace^Feature", "HashValue", "FeatureValue", "WeightValue">>

\* Mutant: 'len(coefficients) < 1' in place of '<= 1'.
HasCoefficients_at_least_one(coefficients) == ~(Len(coefficients) < 1)

\* len(coefficients) <= 1 skips the line.
HasCoefficients(coefficients) == ~(Len(coefficients) <= 1)

\* coeff_term[0..3] are all read: fewer than 4 terms is an IndexError.
RaisesIndexError(coeff_term) == Len(coeff_term) < 4

\* The dict appended for one coefficient.
CoeffRecord(coeff_term) ==
    ("Namespace^Feature" :> coeff_term[1]) @@ ("HashValue" :> coeff_term[2])
        @@ ("FeatureValue" :> coeff_term[3]) @@ ("WeightValue" :> coeff_term[4])

\* The first coefficient of the line whose terms raise, or 0.
RECURSIVE FirstRaising(_, _)
FirstRaising(coefficients, i) ==
    IF i > Len(coefficients) THEN 0
    ELSE IF RaisesIndexError(split(coefficients[i], COLON)) THEN i
    ELSE FirstRaising(coefficients, i + 1)

\* The records the inner loop appends for coefficients 1..n.
CoeffRecords(coefficients, n) ==
    [i \in 1..n |-> CoeffRecord(split(coefficients[i], COLON))]

(***************************************************************************)
(* The pandas calls of parse_audit_command.  A frame is its index names,   *)
(* its column names and its rows (each a dict over both).                  *)
(***************************************************************************)

EmptyFrame == [index_names |-> <<>>, columns |-> <<>>, rows |-> <<>>]

\* pd.DataFrame(coeff_list): the columns are the dicts' keys; none for [].
DataFrame(list) ==
    [index_names |-> <<>>,
     columns |-> IF Len(list) = 0 THEN <<>> ELSE DictKeys,
     rows |-> list]

Range(seq) == {seq[i] : i \in 1..Len(seq)}

\* set_index(keys) raises KeyError when a key is not a column.
RaisesKeyError(df, keys) == ~(Range(keys) \subseteq Range(df.columns))

\* df.set_index(keys, inplace=True)
set_index(df, keys) ==
    [index_names |-> keys,
     columns |-> SelectSeq(df.columns, LAMBDA c : c \notin Range(keys)),
     rows |-> df.rows]

\* df.index: one tuple of the index columns per row.
Index(df) ==
    [i \in 1..Len(df.rows) |->
        [k \in 1..Len(df.index_names) |-> df.rows[i][df.index_names[k]]]]

\* Mutant: keep='last'.
duplicated_keep_last(index) ==
    [i \in 1..Len(index) |-> \E j \in (i + 1)..Len(index) : index[j] = index[i]]

\* index.duplicated(keep='first'): true for all but the first occurrence.
duplicated(index) ==
    [i \in 1..Len(index) |-> \E j \in 1..(i - 1) : index[j] = index[i]]

RECURSIVE SelectRows(_, _, _)
SelectRows(rows, mask, i) ==
    IF i > Len(rows) THEN <<>>
    ELSE (IF mask[i] THEN <<rows[i]>> ELSE <<>>) \o SelectRows(rows, mask, i + 1)

\* Mutant: the de-duplication is left out.
DropDuplicated_keep_all(df) == df

\* df[~df.index.duplicated(keep='first')]
DropDuplicated(df) ==
    LET dup == duplicated(Index(df))
    IN  [df EXCEPT !.rows =
            SelectRows(df.rows, [i \in 1..Len(dup) |-> ~dup[i]], 1)]

RECURSIVE Join(_, _)
Join(texts, sep) ==
    IF Len(texts) = 0 THEN <<>>
    ELSE IF Len(texts) = 1 THEN texts[1]
    ELSE texts[1] \o <<sep>> \o Join(Tail(texts), sep)

RECURSIVE DoubleQuotes(_)
DoubleQuotes(text) ==
    IF Len(text) = 0 THEN <<>>
    ELSE (IF text[1] = QUOTE THEN <<QUOTE, QUOTE>> ELSE <<text[1]>>)
             \o DoubleQuotes(Tail(text))

\* csv.QUOTE_MINIMAL: a field holding the delimiter, the quote character or a
\* line break is written in quotes, its quotes doubled.
CsvField(text, sep) ==
    IF \E i \in 1..Len(text) : text[i] \in {sep, QUOTE, NL, CR}
    THEN <<QUOTE>> \o DoubleQuotes(text) \o <<QUOTE>>
    ELSE text

\* The columns to_csv writes: the index columns first when index is true.
CsvColumns(df, index) ==
    (IF index THEN df.index_names ELSE <<>>) \o df.columns

CsvHeader(df, sep, index) ==
    LET cols == CsvColumns(df, index)
    IN  Join([k \in 1..Len(cols) |-> CsvField(<<cols[k]>>, sep)], sep)

CsvRow(df, row, sep, index) ==
    LET cols == CsvColumns(df, index)
    IN  Join([k \in 1..Len(cols) |-> CsvField(row[cols[k]], sep)], sep)

\* Mutant: index=False.
to_csv_no_index(df, sep, index) ==
    <<CsvHeader(df, sep, FALSE)>>
        \o [i \in 1..Len(df.rows) |-> CsvRow(df, df.rows[i], sep, FALSE)]

\* df.to_csv(file, sep=sep, index=index): the lines written, header first.
to_csv(df, sep, index) ==
    <<CsvHeader(df, sep, index)>>
        \o [i \in 1..Len(df.rows) |-> CsvRow(df, df.rows[i], sep, index)]

(***************************************************************************)
(* The inputs: the command line arguments and the command's output.        *)
(***************************************************************************)

DefaultBaseCommand == <<"vw -t -l 0.001">>

\* args, as parse_args returns them; -p is optional and may be given as ''.
ArgSets ==
    [model : {"model.vw"}, input : {"log.json"}, output : {"audit.tsv"},
     verbose : BOOLEAN, pred_file : {None, <<"">>, <<"pred.txt">>},
     base_command : {DefaultBaseCommand}]
    \cup
    [model : {"model.vw"}, input : {"log.json"}, output : {"audit.tsv"},
     verbose : {FALSE}, pred_file : {None, <<"">>, <<"pred.txt">>},
     base_command : {<<"vw -t -l 0.001 -p base.txt">>}]

\* Audit fragments: two with one key and different weights, one whose key
\* differs in the hash only (a double quote), and an empty one.
Tokens ==
    { <<"a", ":", "1", ":", "1", ":", "x">>,
      <<"a", ":", "1", ":", "1", ":", "y">>,
      <<"a", ":", "\"", ":", "1", ":", "x">>,
      <<>> }

Separators == {TAB, NL}

RECURSIVE BlobsOfTokens(_)
BlobsOfTokens(n) ==
    IF n = 1 THEN Tokens
    ELSE {b \o <<s>> \o t : b \in BlobsOfTokens(n - 1), s \in Separators, t \in Tokens}

\* "ns^feat:abcd1234:1.0:0.532"
SingleValidLine ==
    <<"n", "s", "^", "f", "e", "a", "t", ":",
      "a", "b", "c", "d", "1", "2", "3", "4", ":",
      "1", ".", "0", ":", "0", ".", "5", "3", "2">>

\* The same fragment as the second of two on a line.
PairedValidLine == <<"a", ":", "1", ":", "1", ":", "x">> \o <<TAB>> \o SingleValidLine

\* A fragment of 2 terms, alone on its line, and after and before a fragment
\* of 4 terms.
ShortFragmentLines ==
    { <<"a", ":", "1">>,
      <<"a", ":", "1", ":", "1", ":", "x", TAB, "a", ":", "1">>,
      <<"a", ":", "1", TAB, "a", ":", "1", ":", "1", ":", "x">> }

\* What the command may print: up to MaxTokens fragments, each followed by a
\* tab or a line break, and the lines above.
Blobs ==
    {<<>>, SingleValidLine, PairedValidLine} \cup ShortFragmentLines
        \cup UNION {BlobsOfTokens(n) : n \in 1..MaxTokens}

(***************************************************************************)
(* The program.                                                            *)
(***************************************************************************)

VARIABLES
    args,           \* the parsed command line
    pc,             \* where __main__ is
    exc,            \* the exception that ended the program, or "None"
    stdout,         \* what print has written, in order
    vw_audit_cmd,   \* the command line run_vw_audit_command built
    cmd_status,     \* how the external command ended, "not_run" before it
    vw_cmd_output,  \* the captured output of the command
    parse_verbose,  \* parse_audit_command's verbose parameter
    lines,          \* the stripped lines the parser iterates over
    line_number,    \* the parser's line_number
    coeff_list,     \* the parser's coeff_list
    df_coeff,       \* the frame parse_audit_command returns
    artifact        \* the lines of the audit output file, <<>> if not written

vars == <<args, pc, exc, stdout, vw_audit_cmd, cmd_status, vw_cmd_output,
          parse_verbose, lines, line_number, coeff_list, df_coeff, artifact>>

parser_vars == <<parse_verbose, lines, line_number, coeff_list, df_coeff, artifact>>

IndexKeys == <<"Namespace^Feature", "HashValue", "FeatureValue">>

\* One print call: its format string and what is formatted into it.
Printed(fmt, values) == [fmt |-> fmt, values |-> values]

PrintIf(cond, fmt, values) == IF cond THEN <<Printed(fmt, values)>> ELSE <<>>

Init ==
    /\ args \in ArgSets
    /\ pc = "main"
    /\ exc = "None"
    /\ stdout = <<>>
    /\ vw_audit_cmd = <<>>
    /\ cmd_status = "not_run"
    /\ vw_cmd_output = <<>>
    /\ parse_verbose = FALSE
    /\ lines = <<>>
    /\ line_number = 0
    /\ coeff_list = <<>>
    /\ df_coeff = EmptyFrame
    /\ artifact = <<>>

\* args = parser.parse_args(); print(args)
main ==
    /\ pc = "main"
    /\ stdout' = Append(stdout, Printed("{args}", <<args>>))
    /\ pc' = "pprint_vw_audit"
    /\ UNCHANGED <<args, exc, vw_audit_cmd, cmd_status, vw_cmd_output, parser_vars>>

\* run_vw_audit_command(model_file, log_file, pred_file, verbose, vw_base_cmd),
\* called first by pprint_vw_audit.
run_vw_audit_command ==
    /\ pc = "pprint_vw_audit"
    /\ \E status \in CmdStatuses, out \in Blobs :
        LET cmd == VwAuditCmd(args.base_command, args.model, args.input, args.pred_file)
            raised == CheckOutputRaises(status)
        IN  /\ vw_audit_cmd' = cmd
            /\ cmd_status' = status
            /\ exc' = raised
            /\ IF raised = "None"
               THEN /\ vw_cmd_output' = out
                    /\ stdout' = stdout
                           \o PrintIf(args.verbose, "VW Audit command: {0}", <<cmd>>)
                           \o PrintIf(args.verbose, "{0}", <<out>>)
                    /\ pc' = "parse_audit_command"
               ELSE /\ vw_cmd_output' = vw_cmd_output
                    /\ stdout' = stdout
                           \o PrintIf(args.verbose, "VW Audit command: {0}", <<cmd>>)
                    /\ pc' = "raised"
    /\ UNCHANGED <<args, parser_vars>>

\* The verbose parse_audit_command runs with: pprint_vw_audit passes it the
\* output and the file only, so the parameter keeps its default, False.
ParseVerboseArgument(verbose) == FALSE

\* parse_audit_command(vw_cmd_output, audit_output_file), up to its loop.
parse_audit_command ==
    /\ pc = "parse_audit_command"
    /\ parse_verbose' = ParseVerboseArgument(args.verbose)
    /\ coeff_list' = <<>>
    /\ line_number' = 0
    /\ lines' = StrippedLines(vw_cmd_output)
    /\ pc' = "for_line"
    /\ UNCHANGED <<args, exc, stdout, vw_audit_cmd, cmd_status, vw_cmd_output,
                   df_coeff, artifact>>

\* What one pass of the inner loop prints when verbose.
CoeffPrints(coefficients, n) ==
    [i \in 1..n |-> Printed("Coefficients: {0}", <<split(coefficients[i], COLON)>>)]

\* One pass of the loop over the lines: the line is skipped, or each of its
\* coefficients is appended, up to the first that raises IndexError.
for_line ==
    /\ pc = "for_line"
    /\ line_number < Len(lines)
    /\ LET line == lines[line_number + 1]
           coefficients == split(line, TAB)
           bad == FirstRaising(coefficients, 1)
           n == IF bad = 0 THEN Len(coefficients) ELSE bad - 1
           head == PrintIf(parse_verbose, "Line {0}: {1}", <<line_number + 1, line>>)
                     \o PrintIf(parse_verbose, "Num coefficients: {0}",
                                <<Len(coefficients)>>)
       IN  /\ line_number' = line_number + 1
           /\ IF ~HasCoefficients(coefficients)
              THEN /\ stdout' = stdout \o head
                   /\ UNCHANGED <<coeff_list, exc, pc>>
              ELSE /\ coeff_list' = coeff_list \o CoeffRecords(coefficients, n)
                   /\ stdout' = stdout \o head
                          \o (IF parse_verbose
                              THEN CoeffPrints(coefficients,
                                               IF bad = 0 THEN n ELSE bad)
                              ELSE <<>>)
                   /\ exc' = IF bad = 0 THEN "None" ELSE "IndexError"
                   /\ pc' = IF bad = 0 THEN "for_line" ELSE "raised"
    /\ UNCHANGED <<args, vw_audit_cmd, cmd_status, vw_cmd_output, parse_verbose,
                   lines, df_coeff, artifact>>

\* After the loop: the frame, its index, the de-duplication, the file, and
\* the return to pprint_vw_audit and to __main__.
to_frame ==
    /\ pc = "for_line"
    /\ line_number = Len(lines)
    /\ LET df == DataFrame(coeff_list)
       IN  IF RaisesKeyError(df, IndexKeys)
           THEN /\ exc' = "KeyError"
                /\ pc' = "raised"
                /\ UNCHANGED <<df_coeff, artifact>>
           ELSE /\ df_coeff' = DropDuplicated(set_index(df, IndexKeys))
                /\ artifact' = to_csv(df_coeff', TAB, TRUE)
                /\ pc' = "message"
                /\ UNCHANGED exc
    /\ UNCHANGED <<args, stdout, vw_audit_cmd, cmd_status, vw_cmd_output,
                   parse_verbose, lines, line_number, coeff_list>>

\* print("Please see {file} for VW audit output in TSV format")
message ==
    /\ pc = "message"
    /\ stdout' = Append(stdout,
           Printed("Please see {file} for VW audit output in TSV format",
                   <<args.output>>))
    /\ pc' = "done"
    /\ UNCHANGED <<args, exc, vw_audit_cmd, cmd_status, vw_cmd_output, parser_vars>>

Next ==
    \/ main
    \/ run_vw_audit_command
    \/ parse_audit_command
    \/ for_line
    \/ to_frame
    \/ message

Spec == Init /\ [][Next]_vars

(***************************************************************************)
(* The claims.                                                             *)
(***************************************************************************)

\* parse_audit_command has returned its table.
Returned == pc \in {"message", "done"}

\* parse_audit_command has ended: it returned, or raised.
ParseEnded == Returned \/ (pc = "raised" /\ exc \in {"IndexError", "KeyError"})

\* The composite key of a row.
Key(row) == <<row["Namespace^Feature"], row["HashValue"], row["FeatureValue"]>>

RECURSIVE Flatten(_)
Flatten(seqs) == IF Len(seqs) = 0 THEN <<>> ELSE seqs[1] \o Flatten(Tail(seqs))

\* The tab-separated tokens of a line of the output, trimmed.
TokensOf(l) == split(strip(l), TAB)

\* The record of a fragment of at least 4 colon-separated terms.
RecordOf(token) ==
    LET t == split(token, COLON)
    IN  [k \in {"Namespace^Feature", "HashValue", "FeatureValue", "WeightValue"} |->
            CASE k = "Namespace^Feature" -> t[1]
              [] k = "HashValue" -> t[2]
              [] k = "FeatureValue" -> t[3]
              [] OTHER -> t[4]]

\* The records of a blob in line order, then token order, of the lines with
\* at least 2 tokens (defined when each of their tokens has 4 terms).
ParsedRecords(blob) ==
    LET ls == splitlines(blob)
    IN  Flatten([i \in 1..Len(ls) |->
            IF Len(TokensOf(ls[i])) >= 2
            THEN [k \in 1..Len(TokensOf(ls[i])) |-> RecordOf(TokensOf(ls[i])[k])]
            ELSE <<>>])

\* The places of the records whose key did not occur earlier.
FirstPlaces(recs) ==
    {j \in 1..Len(recs) : \A i \in 1..(j - 1) : Key(recs[i]) # Key(recs[j])}

\* C1: whenever parse_audit_command returns a table, no two of its rows have
\* the same composite key (Namespace^Feature, HashValue, FeatureValue).
C1_UniqueKeys ==
    Returned =>
        \A i, j \in 1..Len(df_coeff.rows) :
            i # j => Key(df_coeff.rows[i]) # Key(df_coeff.rows[j])

\* C1's case: a table of two rows was returned and a duplicate was dropped.
C1_Witness ==
    /\ Returned
    /\ Len(df_coeff.rows) >= 2
    /\ Len(coeff_list) > Len(df_coeff.rows)

\* C2: the returned table is the sequence of parsed records (line order, then
\* token order) without the records whose key occurred earlier: the rows are
\* the first occurrences, in their order, with the first occurrence's weight.
C2_FirstOccurrences ==
    Returned =>
        LET recs == ParsedRecords(vw_cmd_output)
            kept == FirstPlaces(recs)
        IN  /\ Len(df_coeff.rows) = Cardinality(kept)
            /\ \A j \in kept :
                   df_coeff.rows[Cardinality({k \in kept : k <= j})] = recs[j]

\* C2's case: two lines gave records, a later record repeats a key with
\* another weight, and two keys survive.
C2_Witness ==
    /\ Returned
    /\ Len(df_coeff.rows) >= 2
    /\ \E i, j \in 1..Len(lines) :
           i # j /\ Len(split(lines[i], TAB)) >= 2 /\ Len(split(lines[j], TAB)) >= 2
    /\ \E i, j \in 1..Len(coeff_list) :
           /\ i < j
           /\ Key(coeff_list[i]) = Key(coeff_list[j])
           /\ coeff_list[i]["WeightValue"] # coeff_list[j]["WeightValue"]

\* C3: on an output with no tab in any line (the empty output among them),
\* parse_audit_command raises nothing and returns a table of zero rows.
C3_EmptyTableReturned ==
    (ParseEnded /\ \A i \in 1..Len(vw_cmd_output) : vw_cmd_output[i] # TAB) =>
        /\ exc = "None"
        /\ Returned
        /\ Len(df_coeff.rows) = 0

\* The row of the fragment "ns^feat:abcd1234:1.0:0.532".
SingleValidRow ==
    [k \in {"Namespace^Feature", "HashValue", "FeatureValue", "WeightValue"} |->
        CASE k = "Namespace^Feature" -> <<"n", "s", "^", "f", "e", "a", "t">>
          [] k = "HashValue" -> <<"a", "b", "c", "d", "1", "2", "3", "4">>
          [] k = "FeatureValue" -> <<"1", ".", "0">>
          [] OTHER -> <<"0", ".", "5", "3", "2">>]

ShortFragmentSeen ==
    \E k \in 1..line_number :
        /\ Len(split(lines[k], TAB)) >= 2
        /\ \E t \in 1..Len(split(lines[k], TAB)) :
               Len(split(split(lines[k], TAB)[t], COLON)) < 4

\* C5: a token of fewer than 4 colon-separated terms does not make
\* parse_audit_command fail: it is skipped and the parsing goes on.
C5_ShortFragmentSkipped ==
    ShortFragmentSeen => (exc = "None" /\ pc # "raised")

\* C6: when the external command fails (it cannot be started, or exits
\* non-zero) the failure ends pprint_vw_audit: the parser is not entered and
\* the file is not written; the parser runs only after the command succeeded.
C6_CommandFailurePropagates ==
    /\ cmd_status \in {"not_started", "nonzero_exit"} =>
           /\ pc = "raised"
           /\ exc \in {"OSError", "CalledProcessError"}
           /\ Len(lines) = 0 /\ line_number = 0 /\ Len(coeff_list) = 0
           /\ df_coeff = EmptyFrame
           /\ Len(artifact) = 0
    /\ (pc \in {"parse_audit_command", "for_line", "message", "done"}
            \/ exc \in {"IndexError", "KeyError"}
            \/ Len(artifact) > 0) =>
           cmd_status = "ok"

\* C6's case: the command exited non-zero and the program has ended.
C6_Witness == cmd_status = "nonzero_exit" /\ pc = "raised"

\* A prediction file is supplied: -p is given and names a file.
PredFileSupplied == args.pred_file # None /\ args.pred_file # <<"">>

\* C7: the command run is the base command, then ' -p <pred_file>' if and only
\* if a prediction file is supplied, then ' -i <model> --dsjson <log> --audit'.
C7_AuditCommand ==
    cmd_status # "not_run" =>
        LET audit == <<" -i ", args.model, " --dsjson ", args.input, " --audit">>
            n == Len(vw_audit_cmd)
            b == Len(args.base_command)
        IN  /\ n >= b + 5
            /\ SubSeq(vw_audit_cmd, 1, b) = args.base_command
            /\ SubSeq(vw_audit_cmd, n - 4, n) = audit
            /\ IF PredFileSupplied
               THEN SubSeq(vw_audit_cmd, b + 1, n - 5) = <<" -p ", args.pred_file[1]>>
               ELSE n = b + 5

\* C7's case: the command was run with a prediction file.
C7_Witness == cmd_status # "not_run" /\ PredFileSupplied

\* stdout holds a print of this format and these values.
HasPrinted(fmt, values) ==
    \E i \in 1..Len(stdout) : stdout[i].fmt = fmt /\ stdout[i].values = values

FinalMessage ==
    Printed("Please see {file} for VW audit output in TSV format", <<args.output>>)

\* C8: a run with the verbose flag echoes the command, its raw output, every
\* line as it is parsed and every fragment as it is split; a run without the
\* flag prints the final message and nothing else.
C8_VerboseEchoes ==
    pc = "done" =>
        IF args.verbose
        THEN /\ HasPrinted("VW Audit command: {0}", <<vw_audit_cmd>>)
             /\ HasPrinted("{0}", <<vw_cmd_output>>)
             /\ \A k \in 1..Len(lines) :
                    /\ HasPrinted("Line {0}: {1}", <<k, lines[k]>>)
                    /\ HasPrinted("Num coefficients: {0}", <<Len(split(lines[k], TAB))>>)
                    /\ Len(split(lines[k], TAB)) >= 2 =>
                           \A t \in 1..Len(split(lines[k], TAB)) :
                               HasPrinted("Coefficients: {0}",
                                          <<split(split(lines[k], TAB)[t], COLON)>>)
        ELSE stdout = <<FinalMessage>>

\* The header line: the four column names, tab-separated.
HeaderLine ==
    <<"Namespace^Feature", TAB, "HashValue", TAB, "FeatureValue", TAB, "WeightValue">>

\* A row's four fields in column order, tab-separated, each passed through w.
RowLine(row, w(_)) ==
    w(row["Namespace^Feature"]) \o <<TAB>> \o w(row["HashValue"]) \o <<TAB>>
        \o w(row["FeatureValue"]) \o <<TAB>> \o w(row["WeightValue"])

Verbatim(field) == field

RECURSIVE QuotesDoubled(_)
QuotesDoubled(field) ==
    IF Len(field) = 0 THEN <<>>
    ELSE IF field[1] = QUOTE THEN <<QUOTE, QUOTE>> \o QuotesDoubled(Tail(field))
    ELSE <<field[1]>> \o QuotesDoubled(Tail(field))

\* A field holding a double quote goes between double quotes, its own doubled.
QuotedIfQuote(field) ==
    IF QUOTE \in Range(field)
    THEN <<QUOTE>> \o QuotesDoubled(field) \o <<QUOTE>>
    ELSE field

\* C9, as claimed: the file is the header line and then, for each row of the
\* returned table in order, that row's four fields separated by tabs.
C9_ArtifactRowsVerbatim ==
    Returned =>
        artifact = <<HeaderLine>>
            \o [i \in 1..Len(df_coeff.rows) |-> RowLine(df_coeff.rows[i], Verbatim)]

\* C9, amended: the same, with a field that holds a double quote written
\* between double quotes and its own double quotes doubled.
C9_ArtifactRowsQuoted ==
    Returned =>
        artifact = <<HeaderLine>>
            \o [i \in 1..Len(df_coeff.rows) |-> RowLine(df_coeff.rows[i], QuotedIfQuote)]

\* C9's case: a file of two data rows was written, one with a quoted field.
C9_Witness ==
    /\ Returned
    /\ Len(artifact) = 3
    /\ \E i \in 1..Len(df_coeff.rows) : QUOTE \in Range(df_coeff.rows[i]["HashValue"])

RECURSIVE RecordsDue(_, _)
\* One record per token of each of the first n lines with at least 2 tokens.
RecordsDue(ls, n) ==
    IF n = 0 THEN 0
    ELSE RecordsDue(ls, n - 1)
             + (IF Len(TokensOf(ls[n])) >= 2 THEN Len(TokensOf(ls[n])) ELSE 0)

\* C10: a line gives records if and only if, trimmed, it splits on tabs into
\* at least 2 tokens, and then exactly one record per token: the records
\* appended so far are one per token of the lines passed that have 2 or more.
C10_OneRecordPerToken ==
    (pc = "for_line" \/ ParseEnded) =>
        Len(coeff_list) = RecordsDue(splitlines(vw_cmd_output), line_number)

\* C10 where no IndexError was raised (see C5): the count holds, and the
\* records are those of the tokens, in line order and token order.
C10_OneRecordPerTokenUnlessRaised ==
    ((pc = "for_line" \/ ParseEnded) /\ exc # "IndexError") =>
        /\ Len(coeff_list) = RecordsDue(splitlines(vw_cmd_output), line_number)
        /\ line_number = Len(lines) => coeff_list = ParsedRecords(vw_cmd_output)

====
